---- MODULE Spec2Model ----
(***************************************************************************)
(* Cyberday simulator (src/src/core/simulator.py) and the session store    *)
(* it persists to, with the enrichment pass of src/src/core/integration.py.*)
(*                                                                         *)
(* Money is modelled in whole currency units (integer prices); the         *)
(* simulated clock is in whole seconds.  Redis keys "cart:CART-nnn" and    *)
(* "stock_out:<product_id>" are the pairs <<"cart", n>> and                *)
(* <<"stock_out", product_id>>.                                            *)
(***************************************************************************)
EXTENDS Integers, Sequences, FiniteSets, TLC

\* ---------------------------------------------------------------- bounds
MaxEvents == 2
MaxCustomers == 2
NumProducts == 2
MaxStock == 2
MaxQuantity == 2
MaxDelta == 2

VARIABLES
    collection,        \* catalog store: the documents of amazon_products
    redis,             \* session store: key -> hash (field -> value)
    num_customers,     \* CyberdaySimulator.num_customers
    num_events,        \* CyberdaySimulator.num_events
    simulation_start,  \* CyberdaySimulator.simulation_start (wall clock at construction)
    save_to_redis,     \* argument of simulate_cyberday
    products,          \* CyberdaySimulator.products
    pc,                \* position in simulate_cyberday
    events,            \* local events list / the DataFrame built from it
    cart_id,           \* local cart_id counter
    stock_tracker,     \* local stock_tracker dict
    stock_out_times,   \* local stock_out_times dict, in insertion order
    current_time,      \* local current_time
    i,                 \* loop index of "for i in range(self.num_events)"
    df,                \* what simulate_cyberday returned
    pcEvents,          \* position in _save_events_to_redis
    cart_todo,         \* cart ids _save_events_to_redis has still to write
    pcStock,           \* position in _save_stock_out_times_to_redis
    stock_todo,        \* records _save_stock_out_times_to_redis has still to write
    tape,              \* the values the random module has returned, in order (fixed by the seed)
    run,               \* 1, or 2 when the simulation is repeated with the same seed
    first_events,      \* the events run 1 returned, kept for comparison with run 2
    clear_after_stock_write,
                       \* history: flushdb ran after a stock-out record of this run was written
    csv,               \* data/processed/cyberday_simulation.csv as run_simulation wrote it
    report,            \* what the last analytics or report call returned
    snapshot           \* history: the two stores when the analytics began

\* what a run never changes: its arguments and the catalog, and the results
\* of the analytics run between simulations
params == <<collection, num_customers, num_events, save_to_redis, report, snapshot>>

\* the locals of the simulation loop
locals == <<events, cart_id, stock_tracker, stock_out_times, current_time, i, tape>>

vars == <<params, locals, redis, simulation_start, products, pc, df, pcEvents,
          cart_todo, pcStock, stock_todo, run, first_events,
          clear_after_stock_write, csv>>

\* ---------------------------------------------------------------- catalog
ProductIds == 1..NumProducts

NameOf(p) == <<"product", p>>

\* category hierarchy string "Top|Sub", as its list of segments
CategoryOf(p) == IF p % 2 = 1 THEN <<"Electronics", "Cables">> ELSE <<"Home">>

PriceOf(p) == 100 * p

ProductDoc(p, s) ==
    [product_id |-> p, product_name |-> NameOf(p), category |-> CategoryOf(p),
     discounted_price |-> PriceOf(p), stock |-> s]

\* the catalogs the load stage can have written: one document per product,
\* each with a positive stock; and the empty collection
Catalogs ==
    {<<>>} \cup { [p \in ProductIds |-> ProductDoc(p, st[p])] :
                    st \in [ProductIds -> 1..MaxStock] }

\* ---------------------------------------------------------------- redis
EmptyStore == [k \in {} |-> [f \in {} |-> 0]]

\* redis hset(key, mapping): sets the given fields of the hash at key
HSet(store, key, mapping) ==
    [k \in (DOMAIN store) \cup {key} |->
        IF k = key
        THEN IF key \in DOMAIN store
             THEN [f \in (DOMAIN store[key]) \cup (DOMAIN mapping) |->
                      IF f \in DOMAIN mapping THEN mapping[f] ELSE store[key][f]]
             ELSE mapping
        ELSE store[k]]

\* mutant: stock-out records written into the carts' key space
StockOutKeyAmongCarts(p) == <<"cart", p>>

\* f"stock_out:{product_id}"
StockOutKey(p) == <<"stock_out", p>>

\* f"cart:{cart_id}", cart_id being f"CART-{n:03d}"
CartKey(c) == <<"cart", c>>

\* redis keys("cart:CART-*")
CartKeys(store) == {k \in DOMAIN store : k[1] = "cart"}

\* redis keys("stock_out:*")
StockOutKeys(store) == {k \in DOMAIN store : k[1] = "stock_out"}

\* ---------------------------------------------------------------- simulator
\* "for product in self.products: stock_tracker[product_id] = product['stock']":
\* a later document of the same product_id overwrites an earlier one
StockSeed(prods) ==
    LET ids == {prods[k].product_id : k \in DOMAIN prods}
        last(p) == CHOOSE k \in DOMAIN prods :
                      /\ prods[k].product_id = p
                      /\ \A j \in DOMAIN prods : prods[j].product_id = p => j <= k
    IN  [p \in ids |-> prods[last(p)].stock]

\* stock_tracker.get(product_id, 0)
Available(tracker, p) == IF p \in DOMAIN tracker THEN tracker[p] ELSE 0

\* "product_id in stock_out_times"
HasStockOut(times, p) == \E k \in DOMAIN times : times[k].product_id = p

\* mutant: the assignment without its "not in" guard
RecordStockOutOverwrite(times, p, rec) ==
    IF HasStockOut(times, p)
    THEN [k \in DOMAIN times |-> IF times[k].product_id = p THEN rec ELSE times[k]]
    ELSE Append(times, rec)

\* "if product_id not in stock_out_times: stock_out_times[product_id] = {...}"
RecordStockOut(times, p, rec) ==
    IF HasStockOut(times, p) THEN times ELSE Append(times, rec)

\* "if available_stock <= 0": out of stock, the sale is lost
StockOutBranch(available, quantity, price) ==
    [event_type |-> "stock_out", stock_before |-> 0, stock_after |-> 0,
     revenue |-> 0, lost_revenue |-> price * quantity,
     stock |-> available, records |-> TRUE]

\* mutant: the partial checkout deducts the whole requested quantity
PartialBranchOversell(available, quantity, price) ==
    [event_type |-> "partial_checkout", stock_before |-> available,
     stock_after |-> 0, revenue |-> price * available,
     lost_revenue |-> price * (quantity - available),
     stock |-> available - quantity, records |-> TRUE]

\* mutant: the partial checkout books the whole requested quantity as lost
PartialBranchLosesAll(available, quantity, price) ==
    [event_type |-> "partial_checkout", stock_before |-> available,
     stock_after |-> 0, revenue |-> price * available,
     lost_revenue |-> price * quantity,
     stock |-> 0, records |-> TRUE]

\* "elif available_stock < quantity": partial checkout
PartialBranch(available, quantity, price) ==
    [event_type |-> "partial_checkout", stock_before |-> available,
     stock_after |-> 0, revenue |-> price * available,
     lost_revenue |-> price * (quantity - available),
     stock |-> 0, records |-> TRUE]

\* mutant: the checkout event reports the stock it found as the stock it left
CheckoutBranchStaleAfter(available, quantity, price) ==
    [event_type |-> "checkout", stock_before |-> available,
     stock_after |-> available, revenue |-> price * quantity,
     lost_revenue |-> 0, stock |-> available - quantity, records |-> FALSE]

\* "if action == 'checkout'"
CheckoutBranch(available, quantity, price) ==
    [event_type |-> "checkout", stock_before |-> available,
     stock_after |-> available - quantity, revenue |-> price * quantity,
     lost_revenue |-> 0, stock |-> available - quantity, records |-> FALSE]

\* mutant: an add reserves the units it names
AddBranchDeducts(available, quantity, price) ==
    [event_type |-> "add", stock_before |-> available,
     stock_after |-> available, revenue |-> 0, lost_revenue |-> 0,
     stock |-> available - quantity, records |-> FALSE]

\* "elif action == 'add'": stock is not deducted
AddBranch(available, quantity, price) ==
    [event_type |-> "add", stock_before |-> available,
     stock_after |-> available, revenue |-> 0, lost_revenue |-> 0,
     stock |-> available, records |-> FALSE]

\* mutant: an abandon returns the units it names to the stock
AbandonBranchRestocks(available, quantity, price) ==
    [event_type |-> "abandon", stock_before |-> available,
     stock_after |-> available, revenue |-> 0, lost_revenue |-> 0,
     stock |-> available + quantity, records |-> FALSE]

\* "else": abandon
AbandonBranch(available, quantity, price) ==
    [event_type |-> "abandon", stock_before |-> available,
     stock_after |-> available, revenue |-> 0, lost_revenue |-> 0,
     stock |-> available, records |-> FALSE]

\* mutant: a request for exactly the available units is a partial checkout
OutcomePartialOnEqual(available, quantity, price, action) ==
    IF available <= 0 THEN StockOutBranch(available, quantity, price)
    ELSE IF available <= quantity THEN PartialBranch(available, quantity, price)
    ELSE IF action = "checkout" THEN CheckoutBranch(available, quantity, price)
    ELSE IF action = "add" THEN AddBranch(available, quantity, price)
    ELSE AbandonBranch(available, quantity, price)

\* the branch of one loop iteration: what the event carries, the product's
\* stock counter after it (stock) and whether the branch records a stock-out;
\* action is the result of random.choices, read only when the stock suffices
Outcome(available, quantity, price, action) ==
    IF available <= 0 THEN StockOutBranch(available, quantity, price)
    ELSE IF available < quantity THEN PartialBranch(available, quantity, price)
    ELSE IF action = "checkout" THEN CheckoutBranch(available, quantity, price)
    ELSE IF action = "add" THEN AddBranch(available, quantity, price)
    ELSE AbandonBranch(available, quantity, price)

Actions == {"checkout", "add", "abandon"}

\* one draw of every random value an iteration may read
Draws(tracker, prods, customers) ==
    { d \in [customer : 1..customers, index : DOMAIN prods,
              quantity : 1..MaxQuantity, delta : 1..MaxDelta,
              action : Actions \cup {"none"}, new_cart : BOOLEAN] :
        (d.action = "none") <=>
            (Available(tracker, prods[d.index].product_id) < d.quantity) }

\* mutant: the record carries the start of the run, not the time of the event
StockOutRecordAtStart(product, now, start) ==
    [product_id |-> product.product_id, time |-> start,
     duration_seconds |-> now - start,
     product_name |-> product.product_name, category |-> product.category]

\* the stock-out record an iteration writes if the product has none
StockOutRecord(product, now, start) ==
    [product_id |-> product.product_id, time |-> now,
     duration_seconds |-> now - start,
     product_name |-> product.product_name, category |-> product.category]

\* "event = {...}"
MakeEvent(cart, customer, now, product, quantity, o) ==
    [cart_id |-> cart, customer_id |-> customer, event_time |-> now,
     event_type |-> o.event_type, product_id |-> product.product_id,
     product_name |-> product.product_name, category |-> product.category,
     quantity |-> quantity, price |-> product.discounted_price,
     stock_before |-> o.stock_before, stock_after |-> o.stock_after,
     revenue |-> o.revenue, lost_revenue |-> o.lost_revenue]

\* ---------------------------------------------------------------- persistence
\* df['cart_id'].unique(): the cart ids in order of first appearance
RECURSIVE UniqueCarts(_)
UniqueCarts(evs) ==
    IF evs = <<>> THEN <<>>
    ELSE LET front == UniqueCarts(SubSeq(evs, 1, Len(evs) - 1))
             c     == evs[Len(evs)].cart_id
         IN  IF \E k \in DOMAIN front : front[k] = c THEN front
             ELSE Append(front, c)

\* df[df['cart_id'] == cart_id]
CartEvents(evs, c) == SelectSeq(evs, LAMBDA e : e.cart_id = c)

\* the dict _save_events_to_redis serializes for one row
StoredEvent(row) ==
    [event_time |-> row.event_time, event_type |-> row.event_type,
     product_id |-> row.product_id, product_name |-> row.product_name,
     category |-> row.category, quantity |-> row.quantity, price |-> row.price,
     stock_before |-> row.stock_before, stock_after |-> row.stock_after,
     revenue |-> row.revenue, lost_revenue |-> row.lost_revenue]

\* "total_revenue += row['revenue']" over the rows of a cart
RECURSIVE SumRevenue(_)
SumRevenue(rows) ==
    IF rows = <<>> THEN 0 ELSE rows[1].revenue + SumRevenue(Tail(rows))

\* "total_lost += row['lost_revenue']" over the rows of a cart
RECURSIVE SumLost(_)
SumLost(rows) ==
    IF rows = <<>> THEN 0 ELSE rows[1].lost_revenue + SumLost(Tail(rows))

\* mutant: the totals are never reset between carts' rows
CartMappingWholeFrame(evs, c) ==
    LET cart_events == CartEvents(evs, c)
    IN  [customer_id |-> cart_events[1].customer_id,
         events |-> [k \in DOMAIN cart_events |-> StoredEvent(cart_events[k])],
         total_revenue |-> SumRevenue(evs),
         lost_revenue |-> SumLost(evs),
         created_at |-> "now"]

\* the mapping _save_events_to_redis writes for one cart
CartMapping(evs, c) ==
    LET cart_events == CartEvents(evs, c)
    IN  [customer_id |-> cart_events[1].customer_id,
         events |-> [k \in DOMAIN cart_events |-> StoredEvent(cart_events[k])],
         total_revenue |-> SumRevenue(cart_events),
         lost_revenue |-> SumLost(cart_events),
         created_at |-> "now"]

\* the mapping _save_stock_out_times_to_redis writes for one record
StockOutMapping(data) ==
    [product_name |-> data.product_name, category |-> data.category,
     time |-> data.time, duration_seconds |-> data.duration_seconds]

\* mutant: the store is not cleared
FlushDbKeepsAll(store) == store

\* redis flushdb()
FlushDb(store) == EmptyStore

\* where _save_events_to_redis and _save_stock_out_times_to_redis end: the
\* early return without a connection, the except clause, the end of the body
EndPositions == {"no_connection", "raised", "finished"}

\* what _save_events_to_redis and _save_stock_out_times_to_redis return from
\* each of their ends: the bare "return", the end of the except clause and
\* the end of the body all return None
SaveResult(position) == "None"

\* ---------------------------------------------------------------- earlier content
\* The events of an earlier, longer run over a catalog whose product 1 had
\* one unit: a checkout that empties it, then stock_out events, every event
\* in a cart of its own.
PriorEvent(k) ==
    MakeEvent(k, 1, 500 + k, ProductDoc(1, 1), 1,
              Outcome(IF k = 1 THEN 1 ELSE 0, 1, PriceOf(1), "checkout"))

PriorEvents == [k \in 1..(MaxEvents + 1) |-> PriorEvent(k)]

\* every hset of _save_events_to_redis, in order
RECURSIVE WriteCarts(_, _, _)
WriteCarts(store, evs, todo) ==
    IF todo = <<>> THEN store
    ELSE WriteCarts(HSet(store, CartKey(Head(todo)), CartMapping(evs, Head(todo))),
                    evs, Tail(todo))

\* what that earlier run left in the session store
PriorRunStore ==
    HSet(WriteCarts(EmptyStore, PriorEvents, UniqueCarts(PriorEvents)),
         StockOutKey(1),
         StockOutMapping(StockOutRecord(ProductDoc(1, 1), 502, 500)))

\* the pipeline loads or simulates carts before every run: the store a run
\* starts from holds earlier content
InitialStores == {PriorRunStore}

\* ---------------------------------------------------------------- integration
\* the products dict of enrich_carts_with_product_info: a later document of
\* the same product_id overwrites an earlier one
ProductInfo(docs) ==
    LET ids == {docs[k].product_id : k \in DOMAIN docs}
        last(p) == CHOOSE k \in DOMAIN docs :
                      /\ docs[k].product_id = p
                      /\ \A j \in DOMAIN docs : docs[j].product_id = p => j <= k
    IN  [p \in ids |-> [name |-> docs[last(p)].product_name,
                        price |-> docs[last(p)].discounted_price]]

\* one event of a cart, enriched
EnrichEvent(event, info) ==
    IF event.product_id \in DOMAIN info
    THEN [f \in (DOMAIN event) \cup {"product_name", "product_price"} |->
            IF f = "product_name" THEN info[event.product_id].name
            ELSE IF f = "product_price" THEN info[event.product_id].price
            ELSE event[f]]
    ELSE event

\* the loop of enrich_carts_with_product_info over keys("cart:CART-*"):
\* one hset of the field events_enriched per cart
EnrichStore(store, info) ==
    [k \in DOMAIN store |->
        IF k[1] = "cart"
        THEN [f \in (DOMAIN store[k]) \cup {"events_enriched"} |->
                IF f = "events_enriched"
                THEN [n \in DOMAIN store[k].events |->
                        EnrichEvent(store[k].events[n], info)]
                ELSE store[k][f]]
        ELSE store[k]]

\* ---------------------------------------------------------------- results
\* the CSV file of run_simulation before any run has written it
NoFile == [written |-> FALSE, rows |-> <<>>]

\* no analytics or report call has returned yet
NoReport == [done |-> FALSE]

\* ---------------------------------------------------------------- analytics
\* a text in the events field that json.loads rejects
Garbled == <<[garbled |-> TRUE]>>

\* json.loads accepts the text
Deserializes(text) == \A n \in DOMAIN text : "garbled" \notin DOMAIN text[n]

\* redis keys("cart:CART-*") as the loops iterate it: by cart number
CartScan(store) ==
    LET nums == {k[2] : k \in CartKeys(store)}
        nth(m) == CHOOSE c \in nums : Cardinality({x \in nums : x <= c}) = m
    IN  [m \in 1..Cardinality(nums) |-> CartKey(nth(m))]

\* redis keys("stock_out:*") as the loop iterates it: by product id
StockOutScan(store) ==
    LET ids == {k[2] : k \in StockOutKeys(store)}
        nth(m) == CHOOSE p \in ids : Cardinality({x \in ids : x <= p}) = m
    IN  [m \in 1..Cardinality(ids) |-> StockOutKey(nth(m))]

\* cart_data.get('events', '[]')
EventsText(hash) == IF "events" \in DOMAIN hash THEN hash.events ELSE <<>>

\* some json.loads of the scan raises: the except clause of the query runs
ScanRaises(store) ==
    \E k \in CartKeys(store) : ~Deserializes(EventsText(store[k]))

\* the events the nested loops "for key in cart_keys: for event in events"
\* visit, in order
RECURSIVE ScanEvents(_, _)
ScanEvents(store, keys) ==
    IF keys = <<>> THEN <<>>
    ELSE EventsText(store[Head(keys)]) \o ScanEvents(store, Tail(keys))

\* the keys of a dict in insertion order, given the key of every insertion
RECURSIVE InsertionOrder(_)
InsertionOrder(ks) ==
    IF ks = <<>> THEN <<>>
    ELSE LET front == InsertionOrder(SubSeq(ks, 1, Len(ks) - 1))
             k     == ks[Len(ks)]
         IN  IF \E n \in DOMAIN front : front[n] = k THEN front
             ELSE Append(front, k)

\* mutant: the sum starts from one
RECURSIVE AccumulateFromOne(_, _)
AccumulateFromOne(evs, field) ==
    IF evs = <<>> THEN 1
    ELSE evs[1][field] + AccumulateFromOne(Tail(evs), field)

\* "d[key] = d.get(key, 0) + event[field]" over the given events
RECURSIVE Accumulate(_, _)
Accumulate(evs, field) ==
    IF evs = <<>> THEN 0
    ELSE evs[1][field] + Accumulate(Tail(evs), field)

\* mutant: the sort without reverse=True, smaller keys first
SortedForward(items, val) ==
    LET rank(n) == Cardinality({m \in DOMAIN items :
                       val[m] < val[n] \/ (val[m] = val[n] /\ m < n)}) + 1
    IN  [r \in DOMAIN items |-> items[CHOOSE n \in DOMAIN items : rank(n) = r]]

\* sorted(items, key=..., reverse=True): a stable sort, larger keys first;
\* items in their incoming order, val[n] the sort key of items[n]
SortedReverse(items, val) ==
    LET rank(n) == Cardinality({m \in DOMAIN items :
                       val[m] > val[n] \/ (val[m] = val[n] /\ m < n)}) + 1
    IN  [r \in DOMAIN items |-> items[CHOOSE n \in DOMAIN items : rank(n) = r]]

\* mutant: the slice is forgotten
TakeAll(seq, limit) == seq

\* seq[:limit] for a limit that is not negative
Take(seq, limit) ==
    IF limit >= Len(seq) THEN seq ELSE SubSeq(seq, 1, limit)

\* mongo_collection.find_one({'product_id': product_id}): the first match
\* or None
Found(docs, p) == \E k \in DOMAIN docs : docs[k].product_id = p

FindOne(docs, p) ==
    docs[CHOOSE k \in DOMAIN docs :
            /\ docs[k].product_id = p
            /\ \A j \in DOMAIN docs : docs[j].product_id = p => k <= j]

\* "if event['event_type'] in ['checkout', 'partial_checkout']"
IsSale(e) == e.event_type \in {"checkout", "partial_checkout"}

\* category.split('|')[0] if '|' in category else category
MainCategory(category) == Head(category)

\* CyberdayAnalytics.get_top_selling_products: the rows of the DataFrame it
\* returns; the empty DataFrame of the except clause when the scan raises
get_top_selling_products(store, docs, limit) ==
    IF ScanRaises(store) THEN <<>>
    ELSE
    LET sales == SelectSeq(ScanEvents(store, CartScan(store)), IsSale)
        ids == InsertionOrder([n \in DOMAIN sales |-> sales[n].product_id])
        of(p) == SelectSeq(sales, LAMBDA e : e.product_id = p)
        sales_by_product == [n \in DOMAIN ids |-> Accumulate(of(ids[n]), "quantity")]
        top == Take(SortedReverse(ids, sales_by_product), limit)
        kept == SelectSeq(top, LAMBDA p : Found(docs, p))
    IN  [n \in DOMAIN kept |->
            LET product == FindOne(docs, kept[n])
            IN  [product_id |-> kept[n],
                 product_name |-> product.product_name,
                 category |-> product.category,
                 price |-> product.discounted_price,
                 quantity_sold |-> Accumulate(of(kept[n]), "quantity"),
                 revenue |-> Accumulate(of(kept[n]), "revenue"),
                 original_stock |-> product.stock]]

\* CyberdayAnalytics.get_top_categories: the rows of the DataFrame it returns,
\* sorted by total_revenue descending; the empty DataFrame when the scan
\* raises or when sort_values finds no column (no sale at all)
get_top_categories(store) ==
    IF ScanRaises(store) THEN <<>>
    ELSE
    LET sales == SelectSeq(ScanEvents(store, CartScan(store)), IsSale)
        cats == InsertionOrder([n \in DOMAIN sales |-> MainCategory(sales[n].category)])
        of(c) == SelectSeq(sales, LAMBDA e : MainCategory(e.category) = c)
        results == [n \in DOMAIN cats |->
            [category |-> cats[n],
             total_units_sold |-> Accumulate(of(cats[n]), "quantity"),
             total_revenue |-> Accumulate(of(cats[n]), "revenue"),
             avg_price_per_unit |->
                 [num |-> Accumulate(of(cats[n]), "revenue"),
                  den |-> Accumulate(of(cats[n]), "quantity")]]]
    IN  SortedReverse(results, [n \in DOMAIN results |-> results[n].total_revenue])

\* the number of entries sorted(...)[:10] keeps in get_lost_revenue_analysis
TopLost == 10

\* mutant: the part is set against the rest, not against the whole
PercentageOfRest(part, whole) ==
    IF whole - part > 0 THEN [num |-> part * 100, den |-> whole - part]
    ELSE [num |-> 0, den |-> 1]

\* a ratio times 100, as the exact fraction num/den; 0 when the guard of the
\* conditional expression fails
Percentage(part, whole) ==
    IF whole > 0 THEN [num |-> part * 100, den |-> whole]
    ELSE [num |-> 0, den |-> 1]

\* CyberdayAnalytics.get_lost_revenue_analysis: the dict it returns, the two
\* breakdowns as lists in the order of the dicts; the {} of the except clause
\* when the scan raises
get_lost_revenue_analysis(store) ==
    IF ScanRaises(store) THEN [empty |-> TRUE]
    ELSE
    LET all == ScanEvents(store, CartScan(store))
        losing == SelectSeq(all, LAMBDA e : e.lost_revenue > 0)
        ids == InsertionOrder([n \in DOMAIN losing |-> losing[n].product_id])
        of(p) == SelectSeq(losing, LAMBDA e : e.product_id = p)
        lost_by_product == [n \in DOMAIN ids |->
            [product_id |-> ids[n],
             product_name |-> of(ids[n])[1].product_name,
             category |-> MainCategory(of(ids[n])[1].category),
             lost_revenue |-> Accumulate(of(ids[n]), "lost_revenue"),
             lost_units |-> Accumulate(of(ids[n]), "quantity")]]
        cats == InsertionOrder([n \in DOMAIN losing |-> MainCategory(losing[n].category)])
        in(c) == SelectSeq(losing, LAMBDA e : MainCategory(e.category) = c)
        lost_by_category == [n \in DOMAIN cats |->
            [category |-> cats[n],
             lost_revenue |-> Accumulate(in(cats[n]), "lost_revenue")]]
        total_lost == Accumulate(all, "lost_revenue")
        total_revenue == Accumulate(all, "revenue")
    IN  [empty |-> FALSE,
         total_lost |-> total_lost,
         total_revenue |-> total_revenue,
         lost_percentage |-> Percentage(total_lost, total_lost + total_revenue),
         lost_by_product |->
             Take(SortedReverse(lost_by_product,
                      [n \in DOMAIN lost_by_product |-> lost_by_product[n].lost_revenue]),
                  TopLost),
         lost_by_category |->
             Take(SortedReverse(lost_by_category,
                      [n \in DOMAIN lost_by_category |-> lost_by_category[n].lost_revenue]),
                  TopLost)]

\* CyberdayAnalytics.get_stock_out_times: the rows of the DataFrame it
\* returns, sorted by duration_seconds ascending; empty without any key
get_stock_out_times(store) ==
    LET keys == StockOutScan(store)
        results == [n \in DOMAIN keys |->
            [product_id |-> keys[n][2],
             product_name |-> store[keys[n]].product_name,
             category |-> store[keys[n]].category,
             duration_seconds |-> store[keys[n]].duration_seconds,
             duration_minutes |-> [num |-> store[keys[n]].duration_seconds, den |-> 60],
             stock_out_time |-> store[keys[n]].time]]
    IN  SortedReverse(results, [n \in DOMAIN results |-> 0 - results[n].duration_seconds])

\* mutant: every event is counted, whatever its type
CountAnyType(evs, type) == Len(evs)

\* the number of events of one type in a deserialized list
CountType(evs, type) == Len(SelectSeq(evs, LAMBDA e : e.event_type = type))

\* "stats[field] += float(cart_data.get(field, 0))" over the given carts
RECURSIVE SumCarts(_, _, _)
SumCarts(store, keys, field) ==
    IF keys = <<>> THEN 0
    ELSE store[Head(keys)][field] + SumCarts(store, Tail(keys), field)

\* CyberdayAnalytics.get_customer_behavior: the dict it returns, customer_stats
\* as a list in the order of the dict; the {} of the except clause when the
\* scan raises
get_customer_behavior(store) ==
    IF ScanRaises(store) THEN [empty |-> TRUE]
    ELSE
    LET keys == CartScan(store)
        customers == InsertionOrder([n \in DOMAIN keys |-> store[keys[n]].customer_id])
        of(c) == SelectSeq(keys, LAMBDA k : store[k].customer_id = c)
        customer_stats == [n \in DOMAIN customers |->
            [customer_id |-> customers[n],
             total_carts |-> Len(of(customers[n])),
             total_revenue |-> SumCarts(store, of(customers[n]), "total_revenue"),
             total_lost |-> SumCarts(store, of(customers[n]), "lost_revenue"),
             checkouts |-> CountType(ScanEvents(store, of(customers[n])), "checkout"),
             abandons |-> CountType(ScanEvents(store, of(customers[n])), "abandon")]]
        total_customers == Len(customer_stats)
    IN  [empty |-> FALSE,
         total_customers |-> total_customers,
         avg_revenue_per_customer |->
             IF total_customers > 0
             THEN [num |-> Accumulate(customer_stats, "total_revenue"),
                   den |-> total_customers]
             ELSE [num |-> 0, den |-> 1],
         customer_stats |-> customer_stats]

\* get_cart_analytics_redis: the metrics dict, {} without a connection; a
\* cart whose events do not deserialize is counted, its events are not
get_cart_analytics_redis(store, redis_up) ==
    IF ~redis_up THEN [empty |-> TRUE]
    ELSE
    LET keys == CartScan(store)
        readable == SelectSeq(keys, LAMBDA k : Deserializes(EventsText(store[k])))
    IN  [empty |-> FALSE,
         total_carts |-> Len(keys),
         total_revenue |-> SumCarts(store, keys, "total_revenue"),
         lost_revenue |-> SumCarts(store, keys, "lost_revenue"),
         checkout_events |-> CountType(ScanEvents(store, readable), "checkout"),
         abandoned_carts |-> CountType(ScanEvents(store, readable), "abandon"),
         carts |-> [n \in DOMAIN keys |->
             [cart_id |-> keys[n][2],
              customer_id |-> store[keys[n]].customer_id,
              total_revenue |-> store[keys[n]].total_revenue]]]

\* cart_metrics.get(name, default)
MetricOr(metrics, name, default) ==
    IF name \in DOMAIN metrics THEN metrics[name] ELSE default

\* mutant: the ratio is not multiplied by 100
HundredthsOfRatio(count, total_carts) ==
    (2 * 100 * count + total_carts) \div (2 * total_carts)

\* f"{count / total_carts * 100:.2f}": the rate in hundredths of a percent,
\* rounded to the nearest, a tie to the even one
Hundredths(count, total_carts) ==
    LET q == (10000 * count) \div total_carts
        r == (10000 * count) % total_carts
    IN  IF 2 * r > total_carts \/ (2 * r = total_carts /\ q % 2 = 1)
        THEN q + 1 ELSE q

\* generate_cyberday_report: the values of the report's cart rows
generate_cyberday_report(store, redis_up) ==
    LET cart_metrics == get_cart_analytics_redis(store, redis_up)
        total_carts == MetricOr(cart_metrics, "total_carts", 1)
        checkout_events == MetricOr(cart_metrics, "checkout_events", 0)
        abandoned_carts == MetricOr(cart_metrics, "abandoned_carts", 0)
    IN  [total_carts |-> MetricOr(cart_metrics, "total_carts", 0),
         completed_carts |-> checkout_events,
         abandoned_carts |-> abandoned_carts,
         total_revenue |-> MetricOr(cart_metrics, "total_revenue", 0),
         lost_revenue |-> MetricOr(cart_metrics, "lost_revenue", 0),
         conversion_rate |->
             IF total_carts > 0 THEN Hundredths(checkout_events, total_carts) ELSE 0,
         abandonment_rate |->
             IF total_carts > 0 THEN Hundredths(abandoned_carts, total_carts) ELSE 0]

\* ---------------------------------------------------------------- actions
\* mutant: the cart counter starts at zero
FreshFromZero ==
    /\ events = <<>>
    /\ cart_id = 0
    /\ stock_tracker = <<>>
    /\ stock_out_times = <<>>
    /\ current_time = simulation_start
    /\ i = 0

\* the locals of simulate_cyberday before its loop
Fresh ==
    /\ events = <<>>
    /\ cart_id = 1
    /\ stock_tracker = <<>>
    /\ stock_out_times = <<>>
    /\ current_time = simulation_start
    /\ i = 0

\* a CyberdaySimulator just constructed, and the argument of the coming call
\* of simulate_cyberday
Constructed(save) ==
    /\ collection \in Catalogs
    /\ redis \in InitialStores
    /\ num_customers = MaxCustomers
    /\ num_events = MaxEvents
    /\ simulation_start = 1000
    /\ save_to_redis = save
    /\ products = <<>>
    /\ pc = "start"
    /\ Fresh
    /\ df = [returned |-> FALSE, none |-> FALSE, rows |-> <<>>]
    /\ pcEvents = "idle"
    /\ cart_todo = <<>>
    /\ pcStock = "idle"
    /\ stock_todo = <<>>
    /\ tape = <<>>
    /\ run = 1
    /\ first_events = <<>>
    /\ clear_after_stock_write = FALSE
    /\ csv = NoFile
    /\ report = NoReport
    /\ snapshot = [redis |-> redis, collection |-> collection]

\* run_simulation: simulate_cyberday(save_to_redis=True)
Init == Constructed(TRUE)

\* mutant: the session store is cleared before the catalog is looked at
LoadProductsAfterClear ==
    /\ pc = "start"
    /\ \E mongo_up \in BOOLEAN :
        IF mongo_up /\ collection # <<>>
        THEN /\ products' = collection
             /\ stock_tracker' = StockSeed(collection)
             /\ pc' = "loop"
             /\ df' = df
        ELSE /\ products' = IF mongo_up THEN collection ELSE products
             /\ stock_tracker' = stock_tracker
             /\ pc' = "done"
             /\ df' = [returned |-> TRUE, none |-> TRUE, rows |-> <<>>]
    /\ redis' = FlushDb(redis)
    /\ UNCHANGED <<params, events, cart_id, stock_out_times, current_time, i,
                   tape, simulation_start, pcEvents, cart_todo, pcStock,
                   stock_todo, run, first_events, clear_after_stock_write, csv>>

\* load_products_from_mongo and the set-up of simulate_cyberday's locals;
\* "return None" when the catalog cannot be read or is empty
LoadProducts ==
    /\ pc = "start"
    /\ \E mongo_up \in BOOLEAN :
        IF mongo_up /\ collection # <<>>
        THEN /\ products' = collection
             /\ stock_tracker' = StockSeed(collection)
             /\ pc' = "loop"
             /\ df' = df
        ELSE /\ products' = IF mongo_up THEN collection ELSE products
             /\ stock_tracker' = stock_tracker
             /\ pc' = "done"
             /\ df' = [returned |-> TRUE, none |-> TRUE, rows |-> <<>>]
    /\ UNCHANGED <<params, events, cart_id, stock_out_times, current_time, i,
                   tape, redis, simulation_start, pcEvents, cart_todo, pcStock,
                   stock_todo, run, first_events, clear_after_stock_write, csv>>

\* one iteration of "for i in range(self.num_events)"
Step ==
    /\ pc = "loop"
    /\ i < num_events
    /\ \E d \in Draws(stock_tracker, products, num_customers) :
        /\ run = 2 => d = tape[i + 1]
        /\ LET product == products[d.index]
               pid     == product.product_id
               now     == current_time + d.delta
               o       == Outcome(Available(stock_tracker, pid), d.quantity,
                                  product.discounted_price, d.action)
           IN  /\ current_time' = now
               /\ stock_tracker' =
                     IF pid \in DOMAIN stock_tracker
                     THEN [stock_tracker EXCEPT ![pid] = o.stock]
                     ELSE stock_tracker
               /\ stock_out_times' =
                     IF o.records
                     THEN RecordStockOut(stock_out_times, pid,
                              StockOutRecord(product, now, simulation_start))
                     ELSE stock_out_times
               /\ events' = Append(events,
                     MakeEvent(cart_id, d.customer, now, product, d.quantity, o))
               /\ cart_id' = IF d.new_cart THEN cart_id + 1 ELSE cart_id
               /\ tape' = IF run = 1 THEN Append(tape, d) ELSE tape
    /\ i' = i + 1
    /\ UNCHANGED <<params, redis, simulation_start, products, pc, df, csv, pcEvents,
                   cart_todo, pcStock, stock_todo, run, first_events,
                   clear_after_stock_write>>

\* mutant: the loop is left one iteration early
FinishLoopEarly ==
    /\ pc = "loop"
    /\ i >= num_events - 1
    /\ pc' = IF save_to_redis THEN "persist" ELSE "return"
    /\ pcEvents' = IF save_to_redis THEN "connect" ELSE pcEvents
    /\ pcStock' = IF save_to_redis THEN "connect" ELSE pcStock
    /\ UNCHANGED <<params, locals, redis, simulation_start, products, df, csv,
                   cart_todo, stock_todo, run, first_events,
                   clear_after_stock_write>>

\* end of the loop: "df = pd.DataFrame(events)", then the two saves if requested
FinishLoop ==
    /\ pc = "loop"
    /\ i = num_events
    /\ pc' = IF save_to_redis THEN "persist" ELSE "return"
    /\ pcEvents' = IF save_to_redis THEN "connect" ELSE pcEvents
    /\ pcStock' = IF save_to_redis THEN "connect" ELSE pcStock
    /\ UNCHANGED <<params, locals, redis, simulation_start, products, df, csv,
                   cart_todo, stock_todo, run, first_events,
                   clear_after_stock_write>>

\* _save_events_to_redis up to its loop: get_redis_connection, then flushdb
SaveEventsBegin ==
    /\ pcEvents = "connect"
    /\ \E redis_up \in BOOLEAN :
        IF redis_up
        THEN /\ redis' = FlushDb(redis)
             /\ cart_todo' = UniqueCarts(events)
             /\ pcEvents' = "write"
             /\ clear_after_stock_write' =
                   (Len(stock_todo) < Len(stock_out_times)
                      /\ pcStock \in {"write", "raised", "finished"})
        ELSE /\ pcEvents' = "no_connection"
             /\ UNCHANGED <<redis, cart_todo, clear_after_stock_write>>
    /\ UNCHANGED <<params, locals, simulation_start, products, pc, df, csv, pcStock,
                   stock_todo, run, first_events>>

\* one iteration of "for cart_id in df['cart_id'].unique()": one hset
WriteCart ==
    /\ pcEvents = "write"
    /\ cart_todo # <<>>
    /\ redis' = HSet(redis, CartKey(Head(cart_todo)),
                     CartMapping(events, Head(cart_todo)))
    /\ cart_todo' = Tail(cart_todo)
    /\ UNCHANGED <<params, locals, simulation_start, products, pc, df, csv, pcEvents,
                   pcStock, stock_todo, run, first_events,
                   clear_after_stock_write>>

\* a redis call of the loop raises: the except clause prints the error
SaveEventsRaise ==
    /\ pcEvents = "write"
    /\ cart_todo # <<>>
    /\ pcEvents' = "raised"
    /\ UNCHANGED <<params, locals, redis, simulation_start, products, pc, df, csv,
                   cart_todo, pcStock, stock_todo, run, first_events,
                   clear_after_stock_write>>

\* the loop is over: redis_client.close()
SaveEventsFinish ==
    /\ pcEvents = "write"
    /\ cart_todo = <<>>
    /\ pcEvents' = "finished"
    /\ UNCHANGED <<params, locals, redis, simulation_start, products, pc, df, csv,
                   cart_todo, pcStock, stock_todo, run, first_events,
                   clear_after_stock_write>>

\* _save_stock_out_times_to_redis up to its loop: get_redis_connection
SaveStockBegin ==
    /\ pcStock = "connect"
    /\ \E redis_up \in BOOLEAN :
        IF redis_up
        THEN /\ stock_todo' = stock_out_times
             /\ pcStock' = "write"
        ELSE /\ stock_todo' = stock_todo
             /\ pcStock' = "no_connection"
    /\ UNCHANGED <<params, locals, redis, simulation_start, products, pc, df, csv,
                   pcEvents, cart_todo, run, first_events,
                   clear_after_stock_write>>

\* one iteration of "for product_id, data in stock_out_times.items()": one hset
WriteStockOut ==
    /\ pcStock = "write"
    /\ stock_todo # <<>>
    /\ redis' = HSet(redis, StockOutKey(Head(stock_todo).product_id),
                     StockOutMapping(Head(stock_todo)))
    /\ stock_todo' = Tail(stock_todo)
    /\ UNCHANGED <<params, locals, simulation_start, products, pc, df, csv, pcEvents,
                   cart_todo, pcStock, run, first_events,
                   clear_after_stock_write>>

\* a redis call of the loop raises: the except clause prints the error
SaveStockRaise ==
    /\ pcStock = "write"
    /\ stock_todo # <<>>
    /\ pcStock' = "raised"
    /\ UNCHANGED <<params, locals, redis, simulation_start, products, pc, df, csv,
                   pcEvents, cart_todo, stock_todo, run, first_events,
                   clear_after_stock_write>>

\* the loop is over: redis_client.close()
SaveStockFinish ==
    /\ pcStock = "write"
    /\ stock_todo = <<>>
    /\ pcStock' = "finished"
    /\ UNCHANGED <<params, locals, redis, simulation_start, products, pc, df, csv,
                   pcEvents, cart_todo, stock_todo, run, first_events,
                   clear_after_stock_write>>

\* "return df"; run_simulation, the caller that passes save_to_redis=True,
\* then writes the frame to the CSV file ("if df is not None and save_csv")
Return ==
    /\ \/ pc = "return"
       \/ pc = "persist" /\ pcEvents \in EndPositions /\ pcStock \in EndPositions
    /\ pc' = "done"
    /\ df' = [returned |-> TRUE, none |-> FALSE, rows |-> events]
    /\ csv' = IF save_to_redis THEN [written |-> TRUE, rows |-> events] ELSE csv
    /\ UNCHANGED <<params, locals, redis, simulation_start, products, pcEvents,
                   cart_todo, pcStock, stock_todo, run, first_events,
                   clear_after_stock_write>>

\* enrich_carts_with_product_info, run after the simulation (integration_all)
Enrich ==
    /\ pc = "done"
    /\ \E mongo_up \in BOOLEAN, redis_up \in BOOLEAN :
        redis' = IF mongo_up /\ redis_up
                 THEN EnrichStore(redis, ProductInfo(collection))
                 ELSE redis
    /\ UNCHANGED <<params, locals, simulation_start, products, pc, df, csv, pcEvents,
                   cart_todo, pcStock, stock_todo, run, first_events,
                   clear_after_stock_write>>

\* simulate_cyberday runs _save_events_to_redis to its end before it calls
\* _save_stock_out_times_to_redis
Next ==
    \/ LoadProducts
    \/ Step
    \/ FinishLoop
    \/ SaveEventsBegin
    \/ WriteCart
    \/ SaveEventsRaise
    \/ SaveEventsFinish
    \/ (pcEvents \in EndPositions /\ SaveStockBegin)
    \/ WriteStockOut
    \/ SaveStockRaise
    \/ SaveStockFinish
    \/ Return
    \/ Enrich

Spec == Init /\ [][Next]_vars

\* ---------------------------------------------------------------- two runs, one seed
\* simulate_cyberday(save_to_redis=False)
InitRerun == Constructed(FALSE)

\* a second CyberdaySimulator with the same arguments, constructed later, is
\* run after random.seed was given the seed of the first run: the random
\* module returns the values of tape again
Rerun ==
    /\ pc = "done"
    /\ run = 1
    /\ ~df.none
    /\ run' = 2
    /\ first_events' = df.rows
    /\ \E later \in {1, 60} : simulation_start' = simulation_start + later
    /\ products' = <<>>
    /\ pc' = "start"
    /\ events' = <<>>
    /\ cart_id' = 1
    /\ stock_tracker' = <<>>
    /\ stock_out_times' = <<>>
    /\ current_time' = simulation_start'
    /\ i' = 0
    /\ df' = [returned |-> FALSE, none |-> FALSE, rows |-> <<>>]
    /\ UNCHANGED <<params, tape, redis, pcEvents, cart_todo, pcStock, stock_todo,
                   clear_after_stock_write, csv>>

NextRerun ==
    \/ LoadProducts
    \/ Step
    \/ FinishLoop
    \/ Return
    \/ Rerun

SpecRerun == InitRerun /\ [][NextRerun]_vars

\* ---------------------------------------------------------------- the two saves, uncoordinated
\* _save_events_to_redis and _save_stock_out_times_to_redis of one run as two
\* tasks: every redis call of one may fall between two redis calls of the other
NextInterleaved ==
    \/ LoadProducts
    \/ Step
    \/ FinishLoop
    \/ SaveEventsBegin
    \/ WriteCart
    \/ SaveEventsFinish
    \/ SaveStockBegin
    \/ WriteStockOut
    \/ SaveStockFinish
    \/ Return

SpecInterleaved == Init /\ [][NextInterleaved]_vars

\* ---------------------------------------------------------------- the loop alone
\* simulate_cyberday(save_to_redis=False): the loop and its return, nothing
\* persisted
NextLoop ==
    \/ LoadProducts
    \/ Step
    \/ FinishLoop
    \/ Return

\* every catalog, the loop alone
SpecLoop == InitRerun /\ [][NextLoop]_vars

\* the interpreter runs the statements of simulate_cyberday one after the
\* other: a step that can be taken is taken
SpecLoopFair ==
    /\ InitRerun
    /\ [][NextLoop]_vars
    /\ WF_vars(LoadProducts)
    /\ WF_vars(Step)
    /\ WF_vars(FinishLoop)
    /\ WF_vars(Return)

\* a catalog of the single product 1, priced 100, with two units in stock
TwoUnits == <<ProductDoc(1, 2)>>

\* CyberdaySimulator(num_events=3) just constructed over that catalog
InitExample ==
    /\ collection = TwoUnits
    /\ redis \in InitialStores
    /\ num_customers = MaxCustomers
    /\ num_events = 3
    /\ simulation_start = 1000
    /\ save_to_redis = FALSE
    /\ products = <<>>
    /\ pc = "start"
    /\ Fresh
    /\ df = [returned |-> FALSE, none |-> FALSE, rows |-> <<>>]
    /\ pcEvents = "idle"
    /\ cart_todo = <<>>
    /\ pcStock = "idle"
    /\ stock_todo = <<>>
    /\ tape = <<>>
    /\ run = 1
    /\ first_events = <<>>
    /\ clear_after_stock_write = FALSE
    /\ csv = NoFile
    /\ report = NoReport
    /\ snapshot = [redis |-> redis, collection |-> collection]

SpecExample == InitExample /\ [][NextLoop]_vars

\* ---------------------------------------------------------------- analytics after a run
\* the locals of simulate_cyberday when its loop starts
LoopStart(prods, start) ==
    [events |-> <<>>, cart_id |-> 1, stock_tracker |-> StockSeed(prods),
     stock_out_times |-> <<>>, current_time |-> start]

\* the locals after one more iteration of the loop that draws d
Iterate(s, prods, start, d) ==
    LET product == prods[d.index]
        pid     == product.product_id
        now     == s.current_time + d.delta
        o       == Outcome(Available(s.stock_tracker, pid), d.quantity,
                           product.discounted_price, d.action)
    IN  [events |-> Append(s.events,
                       MakeEvent(s.cart_id, d.customer, now, product, d.quantity, o)),
         cart_id |-> IF d.new_cart THEN s.cart_id + 1 ELSE s.cart_id,
         stock_tracker |->
             IF pid \in DOMAIN s.stock_tracker
             THEN [s.stock_tracker EXCEPT ![pid] = o.stock]
             ELSE s.stock_tracker,
         stock_out_times |->
             IF o.records
             THEN RecordStockOut(s.stock_out_times, pid,
                                 StockOutRecord(product, now, start))
             ELSE s.stock_out_times,
         current_time |-> now]

\* the locals after the loop has drawn the given values, one per iteration
RECURSIVE RunLoop(_, _, _)
RunLoop(prods, start, draws) ==
    IF draws = <<>> THEN LoopStart(prods, start)
    ELSE Iterate(RunLoop(prods, start, SubSeq(draws, 1, Len(draws) - 1)),
                 prods, start, draws[Len(draws)])

\* the locals every run of n iterations can end with
RECURSIVE LoopStates(_, _, _, _)
LoopStates(prods, start, customers, n) ==
    IF n = 0 THEN {LoopStart(prods, start)}
    ELSE UNION { { Iterate(s, prods, start, d) :
                     d \in Draws(s.stock_tracker, prods, customers) } :
                 s \in LoopStates(prods, start, customers, n - 1) }

\* every hset of _save_stock_out_times_to_redis, in order
RECURSIVE WriteStockOuts(_, _)
WriteStockOuts(store, todo) ==
    IF todo = <<>> THEN store
    ELSE WriteStockOuts(HSet(store, StockOutKey(Head(todo).product_id),
                             StockOutMapping(Head(todo))),
                        Tail(todo))

\* the session store after both saves of a run have finished
Persisted(s) ==
    WriteStockOuts(WriteCarts(FlushDb(EmptyStore), s.events, UniqueCarts(s.events)),
                   s.stock_out_times)

\* a catalog of more products than a top list holds, one unit each at a
\* unit price of its own, every product in a category of its own
NumBulk == TopLost + 2

BulkDoc(p) ==
    [product_id |-> p, product_name |-> NameOf(p),
     category |-> << <<"department", p>>, <<"shelf", p>> >>,
     discounted_price |-> p, stock |-> 1]

BulkCatalog == [p \in 1..NumBulk |-> BulkDoc(p)]

\* a run over BulkCatalog: one unit of product 1 is bought, then two units
\* of every other product are asked for, each event in a cart of its own
BulkDraws ==
    [k \in 1..NumBulk |->
        [customer |-> 1, index |-> k, quantity |-> IF k = 1 THEN 1 ELSE 2,
         delta |-> 1, action |-> IF k = 1 THEN "checkout" ELSE "none",
         new_cart |-> TRUE]]

\* a catalog of one product with nine units, and a run that sells five and
\* four of them and then is asked for one more
NineUnits == <<ProductDoc(1, 9)>>

NineUnitsDraws ==
    << [customer |-> 1, index |-> 1, quantity |-> 5, delta |-> 1,
        action |-> "checkout", new_cart |-> FALSE],
       [customer |-> 2, index |-> 1, quantity |-> 4, delta |-> 1,
        action |-> "checkout", new_cart |-> TRUE],
       [customer |-> 1, index |-> 1, quantity |-> 1, delta |-> 1,
        action |-> "none", new_cart |-> FALSE] >>

\* the earlier runs whose stores the analytics are applied to: every run of
\* num_events iterations over every catalog with its events one second
\* apart (the queries read no event time), and the two longer runs
AnalyticsRuns ==
    UNION { { [catalog |-> c, final |-> s] :
                s \in { t \in LoopStates(c, 1000, MaxCustomers, MaxEvents) :
                          t.current_time = 1000 + MaxEvents } } :
            c \in Catalogs \ {<<>>} }
    \cup { [catalog |-> BulkCatalog, final |-> RunLoop(BulkCatalog, 1000, BulkDraws)],
           [catalog |-> NineUnits, final |-> RunLoop(NineUnits, 1000, NineUnitsDraws)] }

\* the two stores as the analytics find them. Between the run and the
\* analytics: nothing happened; or the events text of one cart was damaged;
\* or the catalog was reloaded without its first product; or the session
\* store was emptied
AnalyticsInputs ==
    UNION { LET stored == Persisted(r.final)
            IN  { [collection |-> r.catalog, redis |-> stored],
                  [collection |-> Tail(r.catalog), redis |-> stored],
                  [collection |-> r.catalog, redis |-> FlushDb(stored)] }
                \cup { [collection |-> r.catalog,
                        redis |-> HSet(stored, k, [events |-> Garbled])] :
                       k \in CartKeys(stored) } :
            r \in AnalyticsRuns }

\* a simulator just constructed over stores that earlier runs have left
InitAnalytics ==
    /\ \E input \in AnalyticsInputs :
        /\ collection = input.collection
        /\ redis = input.redis
    /\ num_customers = MaxCustomers
    /\ num_events = MaxEvents
    /\ simulation_start = 1000
    /\ save_to_redis = TRUE
    /\ products = <<>>
    /\ pc = "start"
    /\ Fresh
    /\ df = [returned |-> FALSE, none |-> FALSE, rows |-> <<>>]
    /\ pcEvents = "idle"
    /\ cart_todo = <<>>
    /\ pcStock = "idle"
    /\ stock_todo = <<>>
    /\ tape = <<>>
    /\ run = 1
    /\ first_events = <<>>
    /\ clear_after_stock_write = FALSE
    /\ csv = NoFile
    /\ report = NoReport
    /\ snapshot = [redis |-> redis, collection |-> collection]

\* what no analytics call assigns
beside_report ==
    <<collection, num_customers, num_events, save_to_redis, snapshot, locals,
      simulation_start, products, pc, df, csv, pcEvents, cart_todo, pcStock,
      stock_todo, run, first_events, clear_after_stock_write>>

\* history: whether a call is the first since the analytics began (1) or a
\* later one (2)
Nth(last) == IF last.done THEN 2 ELSE 1

\* the largest limit a caller passes to get_top_selling_products
MaxLimit == 2

\* mutant: a query that clears the store it has read
AfterReadsCleared(store) == FlushDb(store)

\* the session store after the keys and hgetall calls of a query
AfterReads(store) == store

\* a call of get_top_selling_products(limit)
TopSellingProducts ==
    /\ \E limit \in 0..MaxLimit :
        report' = [done |-> TRUE, nth |-> Nth(report), query |-> "top_products", limit |-> limit,
                   value |-> get_top_selling_products(redis, collection, limit)]
    /\ redis' = AfterReads(redis)
    /\ UNCHANGED beside_report

\* a call of get_top_categories()
TopCategories ==
    /\ report' = [done |-> TRUE, nth |-> Nth(report), query |-> "top_categories",
                  value |-> get_top_categories(redis)]
    /\ redis' = AfterReads(redis)
    /\ UNCHANGED beside_report

\* a call of get_lost_revenue_analysis()
LostRevenueAnalysis ==
    /\ report' = [done |-> TRUE, nth |-> Nth(report), query |-> "lost_revenue",
                  value |-> get_lost_revenue_analysis(redis)]
    /\ redis' = AfterReads(redis)
    /\ UNCHANGED beside_report

\* a call of get_stock_out_times()
StockOutTimes ==
    /\ report' = [done |-> TRUE, nth |-> Nth(report), query |-> "stock_out_times",
                  value |-> get_stock_out_times(redis)]
    /\ redis' = AfterReads(redis)
    /\ UNCHANGED beside_report

\* a call of get_customer_behavior()
CustomerBehavior ==
    /\ report' = [done |-> TRUE, nth |-> Nth(report), query |-> "customer_behavior",
                  value |-> get_customer_behavior(redis)]
    /\ redis' = AfterReads(redis)
    /\ UNCHANGED beside_report

\* a call of generate_cyberday_report(), with or without a redis connection
GenerateReport ==
    /\ \E redis_up \in BOOLEAN :
        report' = [done |-> TRUE, nth |-> Nth(report), query |-> "performance", redis_up |-> redis_up,
                   value |-> generate_cyberday_report(redis, redis_up)]
    /\ redis' = AfterReads(redis)
    /\ UNCHANGED beside_report

NextAnalytics ==
    \/ TopSellingProducts
    \/ TopCategories
    \/ LostRevenueAnalysis
    \/ StockOutTimes
    \/ CustomerBehavior
    \/ GenerateReport

SpecAnalytics == InitAnalytics /\ [][NextAnalytics]_vars

\* ---------------------------------------------------------------- claims
\* the run's loop has emitted all its events
RunOver == pc \in {"loop", "persist", "return", "done"} /\ i = num_events

\* the events of product p, in order
EventsOf(evs, p) == SelectSeq(evs, LAMBDA e : e.product_id = p)

\* units of product p the checkout and partial_checkout events took from stock
RECURSIVE Fulfilled(_, _)
Fulfilled(evs, p) ==
    IF evs = <<>> THEN 0
    ELSE LET e == evs[Len(evs)]
         IN  Fulfilled(SubSeq(evs, 1, Len(evs) - 1), p)
             + (IF e.product_id = p /\ e.event_type \in {"checkout", "partial_checkout"}
                THEN e.stock_before - e.stock_after ELSE 0)

\* number of stock-out records of product p
RecordCount(times, p) == Cardinality({k \in DOMAIN times : times[k].product_id = p})

\* C1: in every state of a run every product's remaining stock is a
\* non-negative integer, and no step increases any product's remaining stock.
C1_StockNeverNegativeNorRising ==
    [][\A p \in DOMAIN stock_tracker' :
          /\ stock_tracker'[p] \in Nat
          /\ p \in DOMAIN stock_tracker => stock_tracker'[p] <= stock_tracker[p]]_vars

\* a product was sold down to zero
C1_Witness ==
    \E p \in DOMAIN stock_tracker :
        /\ stock_tracker[p] = 0
        /\ StockSeed(products)[p] > 0
        /\ \E k \in DOMAIN events : events[k].event_type = "partial_checkout"

\* C2: at the end of a run, for every product, the initial stock minus the
\* units fulfilled by its checkout and partial_checkout events is the final
\* remaining stock, and that is not negative.
C2_StockConservation ==
    RunOver =>
        \A p \in DOMAIN stock_tracker :
            /\ StockSeed(products)[p] - Fulfilled(events, p) = stock_tracker[p]
            /\ stock_tracker[p] >= 0

\* a run ended in which a product was sold by a checkout and by a partial
\* checkout, and an add event named it too
C2_Witness ==
    /\ RunOver
    /\ \E j, k \in DOMAIN events :
        /\ events[j].product_id = events[k].product_id
        /\ events[j].event_type \in {"checkout", "add"}
        /\ events[k].event_type = "partial_checkout"

\* C3 as stated: for every event of any type, revenue + lost_revenue is
\* unit_price times the event's quantity.
C3_Original ==
    \A k \in DOMAIN events :
        events[k].revenue + events[k].lost_revenue
            = events[k].price * events[k].quantity

\* C3 as amended: for every checkout, partial_checkout and stock_out event,
\* revenue is unit_price times the units fulfilled (stock_before - stock_after)
\* and lost_revenue is unit_price times the units not fulfilled; for every add
\* and abandon event both are zero.
C3_RevenueLossAccounting ==
    \A k \in DOMAIN events :
        LET e == events[k]
            fulfilled == e.stock_before - e.stock_after
        IN  IF e.event_type \in {"checkout", "partial_checkout", "stock_out"}
            THEN /\ e.revenue = e.price * fulfilled
                 /\ e.lost_revenue = e.price * (e.quantity - fulfilled)
                 /\ fulfilled \in 0..e.quantity
            ELSE /\ e.event_type \in {"add", "abandon"}
                 /\ e.revenue = 0
                 /\ e.lost_revenue = 0

\* a run with an add event and a partial checkout
C3_Witness ==
    \E j, k \in DOMAIN events :
        /\ events[j].event_type = "add"
        /\ events[k].event_type = "partial_checkout"
        /\ events[k].revenue > 0
        /\ events[k].lost_revenue > 0

\* C4 as stated: at the end of a run a product has exactly one stock-out
\* record if its stock reached zero during the run, and none otherwise.
C4_OneRecordPerDepletedProduct ==
    RunOver =>
        \A p \in DOMAIN stock_tracker :
            RecordCount(stock_out_times, p)
                = (IF stock_tracker[p] = 0 THEN 1 ELSE 0)

\* the first event after which the stock of product p was zero
FirstZeroEvent(evs, p) ==
    LET zero == {k \in DOMAIN evs : evs[k].product_id = p /\ evs[k].stock_after = 0}
    IN  evs[CHOOSE k \in zero : \A j \in zero : k <= j]

\* C5 as stated: the time and duration_seconds of a product's stock-out record
\* are those of the first event after which the product's stock was zero.
C5_RecordAtFirstZero ==
    \A k \in DOMAIN stock_out_times :
        LET r == stock_out_times[k]
            e == FirstZeroEvent(events, r.product_id)
        IN  /\ r.time = e.event_time
            /\ r.duration_seconds = e.event_time - simulation_start

\* C6: once a product has a stock-out record no later step changes it, and no
\* product ever has two records.
C6_FirstWriterWins ==
    [][/\ \A k \in DOMAIN stock_out_times :
            /\ k \in DOMAIN stock_out_times'
            /\ stock_out_times'[k] = stock_out_times[k]
       /\ \A j, k \in DOMAIN stock_out_times' :
            stock_out_times'[j].product_id = stock_out_times'[k].product_id => j = k]_vars

\* a product with a record was out of stock again at a later event
C6_Witness ==
    \E k \in DOMAIN stock_out_times, n \in DOMAIN events :
        /\ events[n].product_id = stock_out_times[k].product_id
        /\ events[n].event_type = "stock_out"
        /\ events[n].event_time > stock_out_times[k].time

\* C7 as stated: two runs with the same seed, catalog, num_customers and
\* num_events return identical event sequences, timestamps included.
C7_SameSeedSameEvents ==
    (run = 2 /\ pc = "done" /\ ~df.none) => df.rows = first_events

\* the sum of one numeric field over a stored event list
RECURSIVE SumField(_, _)
SumField(list, f) ==
    IF list = <<>> THEN 0
    ELSE SumField(SubSeq(list, 1, Len(list) - 1), f) + list[Len(list)][f]

\* C8: for every cart record in the session store, in every state, the stored
\* total_revenue and lost_revenue are the sums of revenue and lost_revenue
\* over the record's stored event list.
C8_StoredTotalsMatchEvents ==
    \A k \in CartKeys(redis) :
        /\ redis[k].total_revenue = SumField(redis[k].events, "revenue")
        /\ redis[k].lost_revenue = SumField(redis[k].events, "lost_revenue")

\* after the run and the enrichment, a cart of this run whose events carry
\* revenue and lost revenue, beside another cart
C8_Witness ==
    /\ pc = "done"
    /\ Cardinality(CartKeys(redis)) > 1
    /\ \E k \in CartKeys(redis) :
        /\ "events_enriched" \in DOMAIN redis[k]
        /\ redis[k].events[1].event_time > simulation_start
        /\ redis[k].total_revenue > 0
    /\ \E k \in CartKeys(redis) : redis[k].lost_revenue > 0

\* the cart ids of an event sequence
CartIds(evs) == {evs[n].cart_id : n \in DOMAIN evs}

\* the position in evs of the m-th event of cart c
NthOfCart(evs, c, m) ==
    CHOOSE n \in DOMAIN evs :
        /\ evs[n].cart_id = c
        /\ Cardinality({j \in 1..n : evs[j].cart_id = c}) = m

\* the record at key k holds the events of cart c of evs, in their order
HoldsCart(store, k, evs, c) ==
    /\ k \in DOMAIN store
    /\ Len(store[k].events) = Cardinality({n \in DOMAIN evs : evs[n].cart_id = c})
    /\ \A m \in DOMAIN store[k].events :
        LET e == evs[NthOfCart(evs, c, m)]
            st == store[k].events[m]
        IN  /\ st.event_time = e.event_time
            /\ st.event_type = e.event_type
            /\ st.product_id = e.product_id
            /\ st.quantity = e.quantity
            /\ st.revenue = e.revenue
            /\ st.lost_revenue = e.lost_revenue

\* C9: when _save_events_to_redis has completed without failure, the session
\* store holds exactly one cart record per distinct cart_id of the events,
\* each with that cart's events in their original order, and no record that
\* was in the store before the call.
C9_FullReplace ==
    (pcEvents = "finished" /\ pcStock = "connect") =>
        /\ DOMAIN redis = {CartKey(c) : c \in CartIds(events)}
        /\ \A c \in CartIds(events) : HoldsCart(redis, CartKey(c), events, c)
        /\ \A k \in DOMAIN PriorRunStore :
              k \notin DOMAIN redis \/ redis[k] # PriorRunStore[k]

\* the save completed for a run with two carts, over a store that held three
\* carts and a stock-out record
C9_Witness ==
    /\ pcEvents = "finished"
    /\ pcStock = "connect"
    /\ Cardinality(CartIds(events)) = 2
    /\ Cardinality(CartKeys(PriorRunStore)) > 2
    /\ StockOutKeys(PriorRunStore) # {}

\* every cart record and every stock-out record of the run is in the store
AllOfRunStored ==
    /\ \A c \in CartIds(events) : HoldsCart(redis, CartKey(c), events, c)
    /\ \A k \in DOMAIN stock_out_times :
        LET key == StockOutKey(stock_out_times[k].product_id)
        IN  /\ key \in DOMAIN redis
            /\ "events" \notin DOMAIN redis[key]
            /\ redis[key].duration_seconds = stock_out_times[k].duration_seconds
            /\ redis[key].time = stock_out_times[k].time

\* C10 as stated: when the two saves of a run have both completed, in
\* whatever order or interleaving, the store holds every cart record and every
\* stock-out record of the run.
C10_Original ==
    (pcEvents = "finished" /\ pcStock = "finished") => AllOfRunStored

\* C10 as amended: when the two saves of a run have both completed and the
\* clear of _save_events_to_redis did not come after a stock-out write, the
\* store holds every cart record and every stock-out record of the run.
C10_SavesIndependentAfterClear ==
    (pcEvents = "finished" /\ pcStock = "finished" /\ ~clear_after_stock_write)
        => AllOfRunStored

\* both saves completed, the clear first, for a run with two carts and a
\* stock-out record
C10_Witness ==
    /\ pcEvents = "finished"
    /\ pcStock = "finished"
    /\ ~clear_after_stock_write
    /\ stock_out_times # <<>>
    /\ Cardinality(CartIds(events)) = 2

\* the five queries of CyberdayAnalytics
FiveQueries == {"top_products", "top_categories", "lost_revenue",
                "stock_out_times", "customer_behavior"}

\* what the recorded call returns over the given stores
Recomputed(r, store, docs) ==
    IF r.query = "top_products" THEN get_top_selling_products(store, docs, r.limit)
    ELSE IF r.query = "top_categories" THEN get_top_categories(store)
    ELSE IF r.query = "lost_revenue" THEN get_lost_revenue_analysis(store)
    ELSE IF r.query = "stock_out_times" THEN get_stock_out_times(store)
    ELSE get_customer_behavior(store)

\* C11: whatever analytics calls have run and in whatever order, the session
\* store and the catalog store are as they were when the analytics began, and
\* the last of the five queries has returned what it returns over the stores
\* as they were then.
C11_QueriesReadOnlyAnyOrder ==
    /\ redis = snapshot.redis
    /\ collection = snapshot.collection
    /\ (report.done /\ report.query \in FiveQueries) =>
          report.value = Recomputed(report, snapshot.redis, snapshot.collection)

\* a query that ran after another call returned a lost revenue analysis of a
\* store with carts, losses and stock-out records
C11_Witness ==
    /\ report.done
    /\ report.nth = 2
    /\ report.query = "lost_revenue"
    /\ ~report.value.empty
    /\ report.value.total_lost > 0
    /\ StockOutKeys(redis) # {}
    /\ Cardinality(CartKeys(redis)) > 1
    /\ collection # <<>>

\* the store without the cart records whose events text does not deserialize
ValidCarts(store) ==
    [k \in {x \in DOMAIN store :
              x[1] = "cart" => Deserializes(EventsText(store[x]))} |-> store[k]]

\* C12 as stated: when the events text of a cart record does not deserialize,
\* a query that scans the carts returns what it returns over the remaining,
\* valid, cart records.
C12_BadCartSkipped ==
    (report.done /\ report.query \in FiveQueries) =>
        report.value = Recomputed(report, ValidCarts(redis), collection)

\* C13 as stated: a save that ended without a connection or in its except
\* clause returns to simulate_cyberday a result other than the one a save
\* that finished returns.
C13_PersistReportsFailure ==
    /\ pcEvents \in {"no_connection", "raised"} =>
          SaveResult(pcEvents) # SaveResult("finished")
    /\ pcStock \in {"no_connection", "raised"} =>
          SaveResult(pcStock) # SaveResult("finished")

\* C14: with an empty catalog simulate_cyberday returns None; and whenever it
\* returns None (the catalog unreachable or empty) it has emitted no event,
\* created no stock-out record, started neither save, left the session store
\* as it was at construction, and no CSV file is written.
C14_NoCatalogNoRun ==
    [][/\ (pc = "start" /\ collection = <<>>) => df'.none
       /\ df'.none =>
            /\ df'.returned
            /\ events' = <<>>
            /\ stock_out_times' = <<>>
            /\ pcEvents' = "idle"
            /\ pcStock' = "idle"
            /\ ~csv'.written
            /\ (~df.none => redis' = snapshot.redis)]_vars

\* simulate_cyberday returned None over a non-empty catalog it could not
\* reach, the session store holding the carts of an earlier run
C14_Witness ==
    /\ pc = "done"
    /\ df.none
    /\ collection # <<>>
    /\ products = <<>>
    /\ redis = PriorRunStore
    /\ CartKeys(redis) # {}

\* the sum of the third components of a set of triples
RECURSIVE SumTriples(_)
SumTriples(S) ==
    IF S = {} THEN 0
    ELSE LET x == CHOOSE y \in S : TRUE
         IN  x[3] + SumTriples(S \ {x})

\* the sale events of product p in all cart records, each as
\* <<cart key, position, value of the field>>
SalesOf(store, p, field) ==
    UNION { { <<k, n, store[k].events[n][field]>> :
                n \in { m \in DOMAIN store[k].events :
                          /\ store[k].events[m].product_id = p
                          /\ store[k].events[m].event_type
                                \in {"checkout", "partial_checkout"} } } :
            k \in CartKeys(store) }

\* the products with a sale event in some cart record
SoldProducts(store) ==
    UNION { { store[k].events[n].product_id :
                n \in { m \in DOMAIN store[k].events :
                          store[k].events[m].event_type
                              \in {"checkout", "partial_checkout"} } } :
            k \in CartKeys(store) }

\* the product ids of the catalog store
CatalogIds(docs) == {docs[k].product_id : k \in DOMAIN docs}

\* C15: over a store whose cart records deserialize, get_top_selling_products(limit)
\* returns at most limit rows, one per product at most, ordered by quantity_sold
\* descending; each row's quantity_sold and revenue are the sums of quantity and
\* revenue over the checkout and partial_checkout events of its product in all
\* cart records; every row's product is in the catalog and among the limit
\* best sellers, and every catalog product that is among the limit best
\* sellers whatever the order of equal sellers has a row.
C15_TopSellingProducts ==
    (report.done /\ report.query = "top_products" /\ ~ScanRaises(redis)) =>
        LET rows == report.value
            qty(p) == SumTriples(SalesOf(redis, p, "quantity"))
            sold == SoldProducts(redis)
        IN  /\ Len(rows) <= report.limit
            /\ \A m, n \in DOMAIN rows :
                  m < n => /\ rows[m].quantity_sold >= rows[n].quantity_sold
                           /\ rows[m].product_id # rows[n].product_id
            /\ \A n \in DOMAIN rows :
                  /\ rows[n].product_id \in sold \cap CatalogIds(collection)
                  /\ rows[n].quantity_sold = qty(rows[n].product_id)
                  /\ rows[n].revenue =
                        SumTriples(SalesOf(redis, rows[n].product_id, "revenue"))
                  /\ Cardinality({q \in sold : qty(q) > qty(rows[n].product_id)})
                        < report.limit
            /\ \A p \in sold \cap CatalogIds(collection) :
                  Cardinality({q \in sold \ {p} : qty(q) >= qty(p)}) < report.limit
                      => \E n \in DOMAIN rows : rows[n].product_id = p

\* two products were sold, the better seller has no catalog entry, and the
\* query with limit 2 returned the one row of the other
C15_Witness ==
    /\ report.done
    /\ report.query = "top_products"
    /\ report.limit = 2
    /\ ~ScanRaises(redis)
    /\ Cardinality(SoldProducts(redis)) = 2
    /\ Len(report.value) = 1
    /\ \E p \in SoldProducts(redis) \ CatalogIds(collection) :
          SumTriples(SalesOf(redis, p, "quantity"))
              > report.value[1].quantity_sold

\* the events of all cart records that satisfy Keep, each as
\* <<cart key, position, value of the field>>
EventsWhere(store, field, Keep(_)) ==
    UNION { { <<k, n, store[k].events[n][field]>> :
                n \in { m \in DOMAIN store[k].events : Keep(store[k].events[m]) } } :
            k \in CartKeys(store) }

\* the lost revenue summed over the events of product p, of top-level
\* category c
LostOfProduct(store, p) ==
    SumTriples(EventsWhere(store, "lost_revenue", LAMBDA e : e.product_id = p))

LostOfCategory(store, c) ==
    SumTriples(EventsWhere(store, "lost_revenue", LAMBDA e : Head(e.category) = c))

\* the products and the top-level categories of the stored events
StoredProducts(store) ==
    {t[3] : t \in EventsWhere(store, "product_id", LAMBDA e : TRUE)}

StoredCategories(store) ==
    {Head(t[3]) : t \in EventsWhere(store, "category", LAMBDA e : TRUE)}

\* C16: over a store whose cart records deserialize, get_lost_revenue_analysis
\* returns as total_lost and total_revenue the sums of lost_revenue and
\* revenue over all events of all cart records; the product breakdown holds
\* at most 10 products, each once, each with its summed lost revenue, which
\* is positive, and they are the products with the highest lost revenue; the
\* category breakdown holds at most 10 top-level categories, each with its
\* summed lost revenue, and they are those with the highest.
C16_LostRevenueAnalysis ==
    (report.done /\ report.query = "lost_revenue" /\ ~ScanRaises(redis)) =>
        LET v == report.value
            losingP == {p \in StoredProducts(redis) : LostOfProduct(redis, p) > 0}
            losingC == {c \in StoredCategories(redis) : LostOfCategory(redis, c) > 0}
        IN  /\ ~v.empty
            /\ v.total_lost =
                  SumTriples(EventsWhere(redis, "lost_revenue", LAMBDA e : TRUE))
            /\ v.total_revenue =
                  SumTriples(EventsWhere(redis, "revenue", LAMBDA e : TRUE))
            /\ Len(v.lost_by_product) <= 10
            /\ Len(v.lost_by_category) <= 10
            /\ \A m, n \in DOMAIN v.lost_by_product :
                  m # n => v.lost_by_product[m].product_id
                              # v.lost_by_product[n].product_id
            /\ \A n \in DOMAIN v.lost_by_product :
                  LET p == v.lost_by_product[n].product_id
                  IN  /\ p \in losingP
                      /\ v.lost_by_product[n].lost_revenue = LostOfProduct(redis, p)
                      /\ Cardinality({q \in losingP :
                            LostOfProduct(redis, q) > LostOfProduct(redis, p)}) < 10
            /\ \A p \in losingP :
                  Cardinality({q \in losingP \ {p} :
                      LostOfProduct(redis, q) >= LostOfProduct(redis, p)}) < 10
                  => \E n \in DOMAIN v.lost_by_product :
                        v.lost_by_product[n].product_id = p
            /\ \A n \in DOMAIN v.lost_by_category :
                  LET c == v.lost_by_category[n].category
                  IN  /\ c \in losingC
                      /\ v.lost_by_category[n].lost_revenue = LostOfCategory(redis, c)
                      /\ Cardinality({d \in losingC :
                            LostOfCategory(redis, d) > LostOfCategory(redis, c)}) < 10
            /\ \A c \in losingC :
                  Cardinality({d \in losingC \ {c} :
                      LostOfCategory(redis, d) >= LostOfCategory(redis, c)}) < 10
                  => \E n \in DOMAIN v.lost_by_category :
                        v.lost_by_category[n].category = c

\* the analysis of a store with more than 10 losing products in more than 10
\* categories, and a product that was sold without loss: 10 of each returned
C16_Witness ==
    /\ report.done
    /\ report.query = "lost_revenue"
    /\ ~ScanRaises(redis)
    /\ Cardinality({p \in StoredProducts(redis) : LostOfProduct(redis, p) > 0}) > 10
    /\ Cardinality({c \in StoredCategories(redis) : LostOfCategory(redis, c) > 0}) > 10
    /\ \E p \in StoredProducts(redis) : LostOfProduct(redis, p) = 0
    /\ Len(report.value.lost_by_product) = 10
    /\ Len(report.value.lost_by_category) = 10
    /\ report.value.total_revenue > 0

\* the units an event asked for and did not get
UnitsUnfulfilled(e) ==
    IF e.event_type = "stock_out" THEN e.quantity
    ELSE IF e.event_type = "partial_checkout"
         THEN e.quantity - (e.stock_before - e.stock_after)
         ELSE 0

\* the events of product p in all cart records, each as
\* <<cart key, position, units unfulfilled>>
UnfulfilledOf(store, p) ==
    UNION { { <<k, n, UnitsUnfulfilled(store[k].events[n])>> :
                n \in { m \in DOMAIN store[k].events :
                          store[k].events[m].product_id = p } } :
            k \in CartKeys(store) }

\* the unit price the stored events of product p carry
StoredPrice(store, p) ==
    LET prices == {t[3] : t \in EventsWhere(store, "price", LAMBDA e : e.product_id = p)}
    IN  CHOOSE x \in prices : TRUE

\* C17 as stated: in the result of get_lost_revenue_analysis each product's
\* lost_units is the sum over its events of the units not fulfilled, and
\* lost_units times the product's unit price is its lost_revenue.
C17_LostUnitsAreUnfulfilled ==
    (report.done /\ report.query = "lost_revenue" /\ ~ScanRaises(redis)) =>
        \A n \in DOMAIN report.value.lost_by_product :
            LET row == report.value.lost_by_product[n]
            IN  /\ row.lost_units = SumTriples(UnfulfilledOf(redis, row.product_id))
                /\ row.lost_units * StoredPrice(redis, row.product_id)
                      = row.lost_revenue

\* C18: over a store whose cart records deserialize, the
\* lost_percentage that get_lost_revenue_analysis reports is
\* lost / (lost + revenue) * 100 for the sums of lost_revenue and revenue
\* over all stored events, and 0 when both sums are 0; it is 10 for a
\* revenue of 900 and a lost revenue of 100.
C18_LostPercentage ==
    (report.done /\ report.query = "lost_revenue" /\ ~ScanRaises(redis)) =>
        LET lost == SumTriples(EventsWhere(redis, "lost_revenue", LAMBDA e : TRUE))
            revenue == SumTriples(EventsWhere(redis, "revenue", LAMBDA e : TRUE))
            pct == report.value.lost_percentage
        IN  /\ pct.den > 0
            /\ lost + revenue > 0 => pct.num * (lost + revenue) = 100 * lost * pct.den
            /\ lost + revenue = 0 => pct.num = 0
            /\ (revenue = 900 /\ lost = 100) => pct.num = 10 * pct.den

\* the analysis of a store with a revenue of 900 and a lost revenue of 100
C18_Witness ==
    /\ report.done
    /\ report.query = "lost_revenue"
    /\ ~ScanRaises(redis)
    /\ SumTriples(EventsWhere(redis, "revenue", LAMBDA e : TRUE)) = 900
    /\ SumTriples(EventsWhere(redis, "lost_revenue", LAMBDA e : TRUE)) = 100
    /\ report.value.lost_percentage.num = 10 * report.value.lost_percentage.den

\* the cart records of customer c
CartsOf(store, c) == {k \in CartKeys(store) : store[k].customer_id = c}

\* the stored values of a field of the given cart records, each as
\* <<cart key, 0, value>>
StoredTotals(store, keys, field) == {<<k, 0, store[k][field]>> : k \in keys}

\* the events of the given type in the given cart records, each as
\* <<cart key, position, 1>>
TypedEvents(store, keys, type) ==
    UNION { { <<k, n, 1>> :
                n \in { m \in DOMAIN store[k].events :
                          store[k].events[m].event_type = type } } :
            k \in keys }

\* C19: over a store whose cart records deserialize, get_customer_behavior
\* returns one entry per customer_id of the cart records, with the number of
\* that customer's carts, the sum of their stored total_revenue, and the
\* numbers of checkout and of abandon events in them; the entries'
\* total_revenue add up to the total_revenue of all cart records and their
\* total_carts to the number of cart records; avg_revenue_per_customer is
\* that total divided by the number of customers, and 0 without customers.
C19_CustomerBehavior ==
    (report.done /\ report.query = "customer_behavior" /\ ~ScanRaises(redis)) =>
        LET v == report.value
            stats == v.customer_stats
            customers == {redis[k].customer_id : k \in CartKeys(redis)}
            total == SumTriples(StoredTotals(redis, CartKeys(redis), "total_revenue"))
        IN  /\ ~v.empty
            /\ {stats[n].customer_id : n \in DOMAIN stats} = customers
            /\ Len(stats) = Cardinality(customers)
            /\ v.total_customers = Cardinality(customers)
            /\ \A n \in DOMAIN stats :
                  LET mine == CartsOf(redis, stats[n].customer_id)
                  IN  /\ stats[n].total_carts = Cardinality(mine)
                      /\ stats[n].total_revenue =
                            SumTriples(StoredTotals(redis, mine, "total_revenue"))
                      /\ stats[n].checkouts =
                            SumTriples(TypedEvents(redis, mine, "checkout"))
                      /\ stats[n].abandons =
                            SumTriples(TypedEvents(redis, mine, "abandon"))
            /\ SumTriples({<<n, 0, stats[n].total_revenue>> : n \in DOMAIN stats}) = total
            /\ SumTriples({<<n, 0, stats[n].total_carts>> : n \in DOMAIN stats})
                  = Cardinality(CartKeys(redis))
            /\ v.avg_revenue_per_customer.den > 0
            /\ customers # {} =>
                  v.avg_revenue_per_customer.num * Cardinality(customers)
                      = total * v.avg_revenue_per_customer.den
            /\ customers = {} => v.avg_revenue_per_customer.num = 0

\* the behavior of two customers with a cart each, one cart with a checkout
\* and an abandon
C19_Witness ==
    /\ report.done
    /\ report.query = "customer_behavior"
    /\ ~ScanRaises(redis)
    /\ report.value.total_customers = 2
    /\ Cardinality(CartKeys(redis)) = 2
    /\ \E n \in DOMAIN report.value.customer_stats :
          /\ report.value.customer_stats[n].checkouts > 0
          /\ report.value.customer_stats[n].total_revenue > 0
    /\ \E n \in DOMAIN report.value.customer_stats :
          report.value.customer_stats[n].abandons > 0

\* the cart records whose events text deserializes
ReadableCarts(store) ==
    {k \in CartKeys(store) : Deserializes(EventsText(store[k]))}

\* rate, in hundredths of a percent, is count / total * 100 rounded to the
\* nearest hundredth
IsRate(rate, count, total) ==
    LET exact == 10000 * count
    IN  /\ 2 * (rate * total - exact) <= total
        /\ 2 * (exact - rate * total) <= total

\* C20: the conversion and abandonment rates of generate_cyberday_report are
\* checkouts / total_carts * 100 and abandons / total_carts * 100, for the
\* number of cart records and the numbers of checkout and abandon events
\* read from them, when the session store is reachable and holds a cart;
\* both are 0 when it holds no cart and when it is unreachable.
C20_ReportRates ==
    (report.done /\ report.query = "performance") =>
        LET total == Cardinality(CartKeys(redis))
            checkouts == SumTriples(TypedEvents(redis, ReadableCarts(redis), "checkout"))
            abandons == SumTriples(TypedEvents(redis, ReadableCarts(redis), "abandon"))
        IN  IF report.redis_up /\ total > 0
            THEN /\ report.value.total_carts = total
                 /\ IsRate(report.value.conversion_rate, checkouts, total)
                 /\ IsRate(report.value.abandonment_rate, abandons, total)
            ELSE /\ report.value.total_carts = 0
                 /\ report.value.conversion_rate = 0
                 /\ report.value.abandonment_rate = 0

\* the report over a reachable store of twelve carts with one checkout: 8.33
C20_Witness ==
    /\ report.done
    /\ report.query = "performance"
    /\ report.redis_up
    /\ report.value.total_carts = 12
    /\ report.value.conversion_rate = 833

\* the three events of the example: each asks for one unit of product 1 and
\* is a checkout whenever the stock suffices
ExampleEvents ==
    /\ collection = TwoUnits
    /\ Len(events) = 3
    /\ \A k \in 1..3 :
        /\ events[k].product_id = 1
        /\ events[k].price = 100
        /\ events[k].quantity = 1
        /\ events[k].event_type \notin {"add", "abandon"}

\* C21: over a catalog of one product priced 100 with two units, three events
\* of quantity 1 that check out whenever the stock suffices are: a checkout
\* from 2 to 1 with revenue 100, a checkout from 1 to 0 with revenue 100, and a
\* stock_out with revenue 0 and lost_revenue 100; and there is exactly one
\* stock-out record for the product, created at the third event's timestamp.
C21_ExampleScenario ==
    ExampleEvents =>
        /\ events[1].event_type = "checkout"
        /\ events[1].stock_before = 2
        /\ events[1].stock_after = 1
        /\ events[1].revenue = 100
        /\ events[2].event_type = "checkout"
        /\ events[2].stock_before = 1
        /\ events[2].stock_after = 0
        /\ events[2].revenue = 100
        /\ events[3].event_type = "stock_out"
        /\ events[3].revenue = 0
        /\ events[3].lost_revenue = 100
        /\ Len(stock_out_times) = 1
        /\ stock_out_times[1].product_id = 1
        /\ stock_out_times[1].time = events[3].event_time
        /\ stock_out_times[1].duration_seconds = events[3].event_time - simulation_start

\* the example's run has returned its three events
C21_Witness ==
    /\ ExampleEvents
    /\ pc = "done"
    /\ df.rows = events
    /\ events[3].event_type = "stock_out"

\* C22 as stated: all events that share a cart_id carry the same customer_id,
\* and that is the customer_id stored in the cart's session record.
C22_OneCustomerPerCart ==
    /\ \A j, k \in DOMAIN events :
          events[j].cart_id = events[k].cart_id
              => events[j].customer_id = events[k].customer_id
    /\ (pcEvents = "finished" /\ pcStock = "connect") =>
          \A n \in DOMAIN events :
              redis[CartKey(events[n].cart_id)].customer_id = events[n].customer_id

\* C23: with no cart record and no stock-out record in the session store,
\* every analytics query returns an empty or zero-valued result (empty table,
\* zero totals, lost_percentage 0, total_customers 0, average 0), none the
\* empty result of a failure where the query has a result of its own.
C23_EmptyStoreEmptyResults ==
    (report.done /\ DOMAIN redis = {}) =>
        /\ report.query \in {"top_products", "top_categories", "stock_out_times"}
              => report.value = <<>>
        /\ report.query = "lost_revenue" =>
              /\ ~report.value.empty
              /\ report.value.total_lost = 0
              /\ report.value.total_revenue = 0
              /\ report.value.lost_percentage.num = 0
              /\ report.value.lost_by_product = <<>>
              /\ report.value.lost_by_category = <<>>
        /\ report.query = "customer_behavior" =>
              /\ ~report.value.empty
              /\ report.value.total_customers = 0
              /\ report.value.avg_revenue_per_customer.num = 0
              /\ report.value.customer_stats = <<>>

\* the lost-revenue analysis was asked of an empty session store, after
\* another query
C23_Witness ==
    /\ report.done
    /\ report.nth = 2
    /\ DOMAIN redis = {}
    /\ collection # <<>>
    /\ report.query = "lost_revenue"
    /\ ~report.value.empty

\* the positions after k of the events of the product of event k
LaterOfProduct(evs, k) ==
    {j \in DOMAIN evs : j > k /\ evs[j].product_id = evs[k].product_id}

\* C24: for every event, stock_before is the product's initial stock minus the
\* units fulfilled by all earlier events of the run for that product, the
\* units the event fulfils (stock_before - stock_after) never exceed
\* stock_before, and stock_after is the stock_before of the next event for the
\* same product.
C24_CausalConsistency ==
    \A k \in DOMAIN events :
        LET e == events[k]
            later == LaterOfProduct(events, k)
        IN  /\ e.stock_before
                  = StockSeed(products)[e.product_id]
                      - Fulfilled(SubSeq(events, 1, k - 1), e.product_id)
            /\ e.stock_before - e.stock_after \in 0..e.stock_before
            /\ later # {} =>
                  events[CHOOSE j \in later : \A m \in later : j <= m].stock_before
                      = e.stock_after

\* a product was sold in two steps, by a checkout and by a partial checkout,
\* and asked for once more
C24_Witness ==
    /\ Len(events) = 3
    /\ LaterOfProduct(events, 1) = {2, 3}
    /\ events[1].event_type = "checkout"
    /\ events[1].stock_after > 0
    /\ events[2].event_type = "partial_checkout"
    /\ events[3].event_type = "stock_out"

\* the event a step has just appended
Emitted(before, after) == Len(after) = Len(before) + 1

\* C25: an event is a partial_checkout exactly when 0 < available < quantity
\* when it is generated; it then fulfils exactly the available units, has
\* revenue = price * available and lost_revenue = price * (quantity -
\* available), both nonzero for a positive price, sets the product's stock to
\* 0, and creates the product's stock-out record if there is none.
C25_PartialCheckout ==
    [][Emitted(events, events') =>
          LET e == events'[Len(events')]
              p == e.product_id
              available == stock_tracker[p]
          IN  /\ (e.event_type = "partial_checkout")
                    <=> (0 < available /\ available < e.quantity)
              /\ e.event_type = "partial_checkout" =>
                    /\ e.stock_before - e.stock_after = available
                    /\ e.revenue = e.price * available
                    /\ e.lost_revenue = e.price * (e.quantity - available)
                    /\ e.price > 0 => (e.revenue > 0 /\ e.lost_revenue > 0)
                    /\ stock_tracker'[p] = 0
                    /\ RecordCount(stock_out_times', p) = 1
                    /\ IF HasStockOut(stock_out_times, p)
                       THEN stock_out_times' = stock_out_times
                       ELSE /\ Len(stock_out_times') = Len(stock_out_times) + 1
                            /\ LET rec == stock_out_times'[Len(stock_out_times')]
                               IN  /\ rec.product_id = p
                                   /\ rec.time = e.event_time]_vars

\* the last event is a partial checkout that emptied its product and wrote
\* the product's stock-out record, and another event before it was a checkout
\* of exactly the units it asked for
C25_Witness ==
    /\ Len(events) = 2
    /\ events[1].event_type = "checkout"
    /\ events[2].event_type = "partial_checkout"
    /\ events[2].stock_before < events[2].quantity
    /\ stock_tracker[events[2].product_id] = 0
    /\ \E k \in DOMAIN stock_out_times :
        /\ stock_out_times[k].product_id = events[2].product_id
        /\ stock_out_times[k].time = events[2].event_time

\* C26: add, abandon and stock_out events leave the remaining stock of every
\* product unchanged, and add and abandon carry zero revenue and zero
\* lost_revenue; a checkout or partial_checkout event changes the stock of the
\* selected product only, leaving every other product's stock and every
\* existing stock-out record unchanged.
C26_Frame ==
    [][Emitted(events, events') =>
          LET e == events'[Len(events')]
          IN  /\ e.event_type \in {"add", "abandon", "stock_out"}
                    => stock_tracker' = stock_tracker
              /\ e.event_type \in {"add", "abandon"}
                    => (e.revenue = 0 /\ e.lost_revenue = 0)
              /\ e.event_type \in {"checkout", "partial_checkout"} =>
                    /\ DOMAIN stock_tracker' = DOMAIN stock_tracker
                    /\ \A q \in DOMAIN stock_tracker \ {e.product_id} :
                          stock_tracker'[q] = stock_tracker[q]
                    /\ stock_tracker'[e.product_id] # stock_tracker[e.product_id]
                    /\ \A k \in DOMAIN stock_out_times :
                          /\ k \in DOMAIN stock_out_times'
                          /\ stock_out_times'[k] = stock_out_times[k]]_vars

\* an abandon of one product, then a checkout of another one
C26_Witness ==
    /\ Len(events) = 2
    /\ events[1].event_type = "abandon"
    /\ events[2].event_type = "checkout"
    /\ events[1].product_id # events[2].product_id
    /\ stock_tracker[events[1].product_id] = StockSeed(products)[events[1].product_id]
    /\ stock_tracker[events[2].product_id] < StockSeed(products)[events[2].product_id]

\* C27: along the emitted event sequence the cart id starts at 1, never
\* decreases, and grows by at most 1 from one event to the next, so no cart id
\* is skipped, every cart holds at least one event, and the events of a cart
\* form one contiguous run of the sequence.
C27_CartIdsContiguous ==
    /\ events # <<>> => events[1].cart_id = 1
    /\ \A k \in 1..(Len(events) - 1) :
          events[k + 1].cart_id - events[k].cart_id \in {0, 1}
    /\ events # <<>> => CartIds(events) = 1..events[Len(events)].cart_id
    /\ \A j, k \in DOMAIN events :
          (j < k /\ events[j].cart_id = events[k].cart_id)
              => \A m \in j..k : events[m].cart_id = events[j].cart_id

\* three events in two carts, the second cart holding two of them
C27_Witness ==
    /\ Len(events) = 3
    /\ events[1].cart_id = 1
    /\ events[2].cart_id = 2
    /\ events[3].cart_id = 2
    /\ pc = "done"

\* the time an event was generated at, less the time of the event before it
\* (of the run's start for the first event)
SincePrevious(evs, k, start) ==
    evs[k].event_time - (IF k = 1 THEN start ELSE evs[k - 1].event_time)

\* C28: given a non-empty catalog, the simulation loop always terminates and
\* emits exactly num_events events, one per step, with strictly increasing
\* timestamps that each lie 1 to 10 seconds after the previous one (the first
\* after the run's start); a step never fails to produce an event, whatever
\* the stock levels.
C28_LoopTerminates ==
    /\ [](pc = "loop" => (Len(events) = i /\ i <= num_events))
    /\ [](\A k \in DOMAIN events :
             SincePrevious(events, k, simulation_start) \in 1..10)
    /\ []((pc = "loop" /\ i < num_events) => ENABLED Step)
    /\ []((pc = "done" /\ ~df.none) => Len(df.rows) = num_events)
    /\ (pc = "loop") ~> (/\ pc = "done"
                         /\ df.returned
                         /\ ~df.none
                         /\ Len(df.rows) = num_events)

\* a run has returned all its events, the last one found its product out of
\* stock, and the clock advanced by different amounts
C28_Witness ==
    /\ pc = "done"
    /\ ~df.none
    /\ Len(df.rows) = num_events
    /\ df.rows[Len(df.rows)].event_type = "stock_out"
    /\ SincePrevious(df.rows, 1, simulation_start) = 1
    /\ SincePrevious(df.rows, 2, simulation_start) = MaxDelta

\* a stock-out record the current run wrote
OfThisRun(store, k) == store[k].time > simulation_start

\* a cart record an earlier run wrote
OfEarlierRun(store, k) ==
    \E n \in DOMAIN store[k].events : store[k].events[n].event_time < simulation_start

\* C29 as stated: within one run with persistence enabled the run's own clear
\* never deletes one of its stock-out records, and a reader never sees a
\* stock-out record of the run together with cart records of an earlier run.
C29_NoStockOutBesideOldCarts ==
    /\ ~clear_after_stock_write
    /\ \A k \in StockOutKeys(redis) :
          OfThisRun(redis, k) =>
              \A c \in CartKeys(redis) : ~OfEarlierRun(redis, c)

\* the sale events of product p in all cart records, each as
\* <<cart key, position, units the event took from the stock>>
DeductedOf(store, p) ==
    UNION { { <<k, n, store[k].events[n].stock_before - store[k].events[n].stock_after>> :
                n \in { m \in DOMAIN store[k].events :
                          /\ store[k].events[m].product_id = p
                          /\ store[k].events[m].event_type
                                \in {"checkout", "partial_checkout"} } } :
            k \in CartKeys(store) }

\* C30 as stated: when the session store holds the cart records of one run
\* over the current catalog, the quantity_sold that get_top_selling_products
\* reports for a product is the number of units the run took from that
\* product's stock, and so never exceeds the product's original_stock.
C30_QuantitySoldIsDeducted ==
    (/\ report.done
     /\ report.query = "top_products"
     /\ ~ScanRaises(redis)
     /\ StoredProducts(redis) \subseteq CatalogIds(collection)) =>
        \A n \in DOMAIN report.value :
            LET row == report.value[n]
            IN  /\ row.quantity_sold = SumTriples(DeductedOf(redis, row.product_id))
                /\ row.quantity_sold <= row.original_stock

====
